---- MODULE Spec2Model ----
(***************************************************************************)
(* Model of compare_mq_ops.py: the MQ encoder/decoder trace comparison.    *)
(*                                                                         *)
(* Text is modelled character by character: a Python str is a sequence of  *)
(* one-character strings, a file is the sequence of lines that iterating   *)
(* over it yields (each line keeps its terminating "\n").  The regular     *)
(* expressions are modelled by matchers that follow the patterns item by   *)
(* item.  A failed match (Python's None) is the record [ok |-> FALSE].     *)
(***************************************************************************)
EXTENDS Integers, Sequences, FiniteSets, TLC

VARIABLES
    test_output,    \* what `go test` prints in this run (stdout, then stderr), as lines
    pc,             \* position in main(): "run", "parse", "counts", "loop", "done", "IndexError"
    file,           \* content of /tmp/mq_test_output.txt, as the lines read from it
    pos,            \* parse_mq_operations: the number of lines of the file read so far
    encoder_ops,    \* list of (op_num, phase, details)
    decoder_ops,    \* list of (op_num, phase, details)
    max_ops,        \* the bound of the comparison loop
    i,              \* the loop variable of the comparison loop
    out             \* what main() has printed, one entry per print call

vars == <<test_output, pc, file, pos, encoder_ops, decoder_ops, max_ops, i, out>>

----------------------------------------------------------------------------
(* Characters and strings *)

Digit == {"0", "1", "2", "3", "4", "5", "6", "7", "8", "9"}

\* str.strip() without arguments removes these from both ends
Whitespace == {" ", "\t", "\n", "\r", "\f"}

None == [ok |-> FALSE]

Min(S) == CHOOSE x \in S : \A y \in S : x <= y

\* `value` computed once and handed to In: a local variable of the code
Let(value, In(_)) == CHOOSE r \in {In(v) : v \in {value}} : TRUE

\* the literal lit occurs in s at position p (1-based)
HasAt(s, p, lit) ==
    /\ p + Len(lit) - 1 <= Len(s)
    /\ \A k \in 1..Len(lit) : s[p + k - 1] = lit[k]

\* the first position >= p of s that does not hold a character of set cs
RunEnd(s, p, cs) ==
    IF p > Len(s) THEN p
    ELSE CHOOSE q \in p..(Len(s) + 1) :
            /\ q > Len(s) \/ s[q] \notin cs
            /\ \A k \in p..(q - 1) : s[k] \in cs

\* the first position >= p of s that holds a character of set cs
RunEndNot(s, p, cs) ==
    IF p > Len(s) THEN p
    ELSE CHOOSE q \in p..(Len(s) + 1) :
            /\ q > Len(s) \/ s[q] \in cs
            /\ \A k \in p..(q - 1) : s[k] \notin cs

\* the last position <= p of s that does not hold a character of set cs (0 if none)
RunStartBack(s, p, cs) ==
    CHOOSE q \in 0..p :
        /\ q = 0 \/ s[q] \notin cs
        /\ \A k \in (q + 1)..p : s[k] \in cs

DigitVal(c) ==
    CASE c = "0" -> 0 [] c = "1" -> 1 [] c = "2" -> 2 [] c = "3" -> 3
      [] c = "4" -> 4 [] c = "5" -> 5 [] c = "6" -> 6 [] c = "7" -> 7
      [] c = "8" -> 8 [] c = "9" -> 9

\* int(s) of a string of decimal digits: the value of its first n digits
RECURSIVE int_upto(_, _)
int_upto(s, n) ==
    IF n = 0 THEN 0 ELSE 10 * int_upto(s, n - 1) + DigitVal(s[n])

int(s) == int_upto(s, Len(s))

\* s.strip()
strip(s) ==
    Let(RunEnd(s, 1, Whitespace), LAMBDA a :
    Let(RunStartBack(s, Len(s), Whitespace), LAMBDA b :
        IF a > b THEN <<>> ELSE SubSeq(s, a, b)))

----------------------------------------------------------------------------
(* The regular expressions *)

MQE == <<"M", "Q", "E">>
MQC == <<"M", "Q", "C">>
BEFORE == <<"B", "E", "F", "O", "R", "E">>
AFTER == <<"A", "F", "T", "E", "R">>
NEWSTATE == <<"n", "e", "w", "S", "t", "a", "t", "e", "=">>
NEWMPS == <<" ", "n", "e", "w", "M", "P", "S", "=">>

\* re.match(r'\[<tag> #(\d+) (BEFORE|AFTER)\](.+)', line): anchored at the
\* start of the line; \d+ and .+ are greedy and need one character at least;
\* . matches every character but "\n".  The pattern is followed from left to
\* right: d0..d1-1 the digits, ph the phase, r0..r1-1 the rest.  g2 is the
\* phase as an atomic string.
re_match_tag(tag, line) ==
    Let(<<"[">> \o tag \o <<" ", "#">>, LAMBDA pre :
    Let(Len(pre) + 1, LAMBDA d0 :
    Let(RunEnd(line, d0, Digit), LAMBDA d1 :
    Let(IF HasAt(line, d1 + 1, BEFORE) THEN BEFORE
        ELSE IF HasAt(line, d1 + 1, AFTER) THEN AFTER ELSE <<>>, LAMBDA ph :
    Let(d1 + Len(ph) + 2, LAMBDA r0 :
    Let(RunEndNot(line, r0, {"\n"}), LAMBDA r1 :
        IF /\ HasAt(line, 1, pre)
           /\ d1 > d0
           /\ HasAt(line, d1, <<" ">>)
           /\ ph # <<>>
           /\ HasAt(line, r0 - 1, <<"]">>)
           /\ r1 > r0
        THEN [ok |-> TRUE,
              g1 |-> SubSeq(line, d0, d1 - 1),
              g2 |-> IF ph = BEFORE THEN "BEFORE" ELSE "AFTER",
              g3 |-> SubSeq(line, r0, r1 - 1)]
        ELSE None))))))

enc_match(line) == re_match_tag(MQE, line)
dec_match(line) == re_match_tag(MQC, line)

\* r'newState=(\d+) newMPS=(\d+)' matched at position p of s
state_match_at_bit(s, p) ==
    Let(p + Len(NEWSTATE), LAMBDA d0 :
    Let(RunEnd(s, d0, Digit), LAMBDA d1 :
    Let(d1 + Len(NEWMPS), LAMBDA e0 :
    Let(RunEnd(s, e0, Digit), LAMBDA e1 :
        IF /\ HasAt(s, p, NEWSTATE)
           /\ d1 > d0
           /\ HasAt(s, d1, NEWMPS)
           /\ e1 = e0 + 1
           /\ s[e0] \in {"0", "1"}
        THEN [ok |-> TRUE,
              g1 |-> SubSeq(s, d0, d1 - 1),
              g2 |-> SubSeq(s, e0, e1 - 1)]
        ELSE None))))
state_match_at(s, p) ==
    Let(p + Len(NEWSTATE), LAMBDA d0 :
    Let(RunEnd(s, d0, Digit), LAMBDA d1 :
    Let(d1 + Len(NEWMPS), LAMBDA e0 :
    Let(RunEnd(s, e0, Digit), LAMBDA e1 :
        IF /\ HasAt(s, p, NEWSTATE)
           /\ d1 > d0
           /\ HasAt(s, d1, NEWMPS)
           /\ e1 > e0
        THEN [ok |-> TRUE,
              g1 |-> SubSeq(s, d0, d1 - 1),
              g2 |-> SubSeq(s, e0, e1 - 1)]
        ELSE None))))

\* re.search(r'newState=(\d+) newMPS=(\d+)', s): the leftmost match
re_search_state(s) ==
    Let({p \in 1..Len(s) : HasAt(s, p, NEWSTATE) /\ state_match_at(s, p).ok},
        LAMBDA hits :
            IF hits = {} THEN None ELSE state_match_at(s, Min(hits)))

----------------------------------------------------------------------------
(* parse_mq_operations *)

\* (op_num, phase, details) of a match
op_record(m) == <<int(m.g1), m.g2, strip(m.g3)>>

\* one iteration of `for line in f`: the two matches are tried one after
\* the other, each appending to its own list
parse_line_same_tag(ops, line) ==
    Let(enc_match(line), LAMBDA em :
    Let(enc_match(line), LAMBDA dm :
        [ops EXCEPT ![1] = IF em.ok THEN Append(@, op_record(em)) ELSE @,
                    ![2] = IF dm.ok THEN Append(@, op_record(dm)) ELSE @]))
parse_line(ops, line) ==
    Let(enc_match(line), LAMBDA em :
    Let(dec_match(line), LAMBDA dm :
        [ops EXCEPT ![1] = IF em.ok THEN Append(@, op_record(em)) ELSE @,
                    ![2] = IF dm.ok THEN Append(@, op_record(dm)) ELSE @]))

----------------------------------------------------------------------------
(* The captured test output: the texts the run is checked on *)

\* decimal digits of a natural number, as a string
RECURSIVE Dec(_)
Dec(n) ==
    LET d == <<CHOOSE c \in Digit : DigitVal(c) = n % 10>>
    IN  IF n < 10 THEN d ELSE Dec(n \div 10) \o d

\* a trace line "[<tag> #<num> <phase>]<rest>\n"
TagLine(tag, num, phase, rest) ==
    <<"[">> \o tag \o <<" ", "#">> \o num \o <<" ">> \o phase \o <<"]">>
        \o rest \o <<"\n">>

S5M0 == <<" ">> \o NEWSTATE \o <<"5">> \o NEWMPS \o <<"0">>
S05M0 == <<" ">> \o NEWSTATE \o <<"0", "5">> \o NEWMPS \o <<"0">>
S5M1 == <<" ">> \o NEWSTATE \o <<"5">> \o NEWMPS \o <<"1">>
S5M2 == <<" ">> \o NEWSTATE \o <<"5">> \o NEWMPS \o <<"2">>
NoSnap == <<" ", "x">>

MaxLines == 4
MaxOpsIn == 3
LongRep == 51

\* lines a trace may hold, in any order and number
LinePool ==
    { TagLine(MQE, <<"1">>, AFTER, S05M0),
      TagLine(MQC, <<"1">>, BEFORE, S5M2),
      TagLine(MQC, <<"0", "3">>, AFTER, <<" ", "q">> \o S5M0 \o <<" ", "r", " ">>),
      TagLine(MQE, <<"7">>, AFTER, <<>>),
      TagLine(MQC, <<"1", "2">>, AFTER, <<" ", "\t">>),
      <<"o", "k", "\n">> }

RECURSIVE SeqsUpTo(_, _)
SeqsUpTo(S, n) ==
    IF n = 0 THEN {<<>>}
    ELSE LET T == SeqsUpTo(S, n - 1)
         IN  T \cup {Append(t, x) : t \in {u \in T : Len(u) = n - 1}, x \in S}

FreeTexts == SeqsUpTo(LinePool, MaxLines)

\* regular traces: n operations on each side, each a line and then a second
\* line, numbered from 1, the encoder's operations and then the decoder's,
\* and possibly one more encoder line whose second line is missing
EncSecond == {<<AFTER, S5M0>>, <<AFTER, S5M1>>, <<AFTER, NoSnap>>}
DecSecond == {<<AFTER, S5M0>>, <<BEFORE, S5M0>>}

RECURSIVE OpLines(_, _)
OpLines(tag, seconds) ==
    IF seconds = <<>> THEN <<>>
    ELSE LET n == Len(seconds)
         IN  OpLines(tag, SubSeq(seconds, 1, n - 1))
                 \o << TagLine(tag, Dec(n), BEFORE, <<" ", "d", "=", "1">>),
                       TagLine(tag, Dec(n), seconds[n][1], seconds[n][2]) >>

Unpaired == TagLine(MQE, <<"9">>, BEFORE, S5M1)

PairedTexts ==
    UNION { { OpLines(MQE, e) \o t \o OpLines(MQC, d) :
                e \in [1..n -> EncSecond],
                d \in [1..n -> DecSecond],
                t \in {<<>>, <<Unpaired>>} } : n \in 0..MaxOpsIn }

\* long traces: n agreeing operations on each side, then one more on which
\* the two sides agree or disagree
LongOps(n, last) == [k \in 1..n |-> <<AFTER, S5M0>>] \o <<last>>

LongTexts ==
    { OpLines(MQE, LongOps(n, e)) \o OpLines(MQC, LongOps(n, <<AFTER, S5M0>>)) :
        n \in {LongRep - 2, LongRep}, e \in {<<AFTER, S5M0>>, <<AFTER, S5M1>>} }

Texts == FreeTexts \cup PairedTexts \cup LongTexts

----------------------------------------------------------------------------
(* main *)

WindowCap == 50

Min3(a, b, c) == Min({a, b, c})

\* max_ops = min(50, len(encoder_ops)//2, len(decoder_ops)//2)
window_uncapped(n_enc, n_dec) == Min({n_enc \div 2, n_dec \div 2})
window_unhalved(n_enc, n_dec) == Min3(WindowCap, n_enc \div 2, n_dec)
window(n_enc, n_dec) == Min3(WindowCap, n_enc \div 2, n_dec \div 2)

\* list[k] of Python, k counted from 0: IndexError when out of range
InRange(list, k) == k < Len(list)
GetItem(list, k) == list[k + 1]

\* the five lines printed first for operation i
block(k, enc_before, enc_after, dec_before, dec_after) ==
    << <<"=== Operation", k + 1>>,
       <<"ENC BEFORE", enc_before[3]>>,
       <<"ENC AFTER", enc_after[3]>>,
       <<"DEC BEFORE", dec_before[3]>>,
       <<"DEC AFTER", dec_after[3]>> >>

\* enc_state != dec_state, on the tuples of matched groups
StatesDiffer(enc_state, dec_state) == enc_state # dec_state

\* the state check: the line it prints, <<>> when it prints none
judge_absent_differs(enc_after, dec_after) ==
    Let(re_search_state(enc_after[3]), LAMBDA enc_state_match :
    Let(re_search_state(dec_after[3]), LAMBDA dec_state_match :
    Let(IF enc_state_match.ok
        THEN <<enc_state_match.g1, enc_state_match.g2>> ELSE <<>>, LAMBDA enc_state :
    Let(IF dec_state_match.ok
        THEN <<dec_state_match.g1, dec_state_match.g2>> ELSE <<>>, LAMBDA dec_state :
        IF StatesDiffer(enc_state, dec_state)
        THEN <<"STATE MISMATCH", enc_state, dec_state>>
        ELSE IF enc_state_match.ok THEN <<"States match", enc_state>> ELSE <<>>))))
judge(enc_after, dec_after) ==
    Let(re_search_state(enc_after[3]), LAMBDA enc_state_match :
    Let(re_search_state(dec_after[3]), LAMBDA dec_state_match :
        IF enc_state_match.ok /\ dec_state_match.ok
        THEN Let(<<enc_state_match.g1, enc_state_match.g2>>, LAMBDA enc_state :
             Let(<<dec_state_match.g1, dec_state_match.g2>>, LAMBDA dec_state :
                 IF StatesDiffer(enc_state, dec_state)
                 THEN <<"STATE MISMATCH", enc_state, dec_state>>
                 ELSE <<"States match", enc_state>>))
        ELSE <<>>))

\* whether the loop is left after the verdict v: the break
breaks_never(v) == FALSE
breaks_unless_match(v) == v = <<>> \/ v[1] = "STATE MISMATCH"
breaks(v) == v # <<>> /\ v[1] = "STATE MISMATCH"

\* the prints of one iteration, in order: the block, the verdict, a blank line
report_verdict_first(blk, v) ==
    (IF v = <<>> THEN <<>> ELSE <<v>>) \o blk \o << <<"">> >>
report(blk, v) ==
    blk \o (IF v = <<>> THEN <<>> ELSE <<v>>) \o << <<"">> >>

Init ==
    /\ test_output \in Texts
    /\ pc = "run"
    /\ file = <<>>
    /\ pos = 0
    /\ encoder_ops = <<>>
    /\ decoder_ops = <<>>
    /\ max_ops = 0
    /\ i = 0
    /\ out = <<>>

\* subprocess.run(...) and the write of its output to the temporary file
RunTest ==
    /\ pc = "run"
    /\ file' = test_output
    /\ pc' = "parse"
    /\ UNCHANGED <<test_output, pos, encoder_ops, decoder_ops, max_ops, i, out>>

\* parse_mq_operations: one iteration of `for line in f`
ParseLine ==
    /\ pc = "parse"
    /\ pos < Len(file)
    /\ \E r \in {parse_line(<<encoder_ops, decoder_ops>>, file[pos + 1])} :
          /\ encoder_ops' = r[1]
          /\ decoder_ops' = r[2]
    /\ pos' = pos + 1
    /\ UNCHANGED <<test_output, pc, file, max_ops, i, out>>

\* parse_mq_operations: the file is exhausted, the two lists are returned
ParseReturn ==
    /\ pc = "parse"
    /\ pos >= Len(file)
    /\ pc' = "counts"
    /\ UNCHANGED <<test_output, file, pos, encoder_ops, decoder_ops, max_ops, i, out>>

\* the two counts, the blank line, and max_ops
PrintCounts ==
    /\ pc = "counts"
    /\ out' = out \o << <<"Encoder operations", Len(encoder_ops) \div 2>>,
                        <<"Decoder operations", Len(decoder_ops) \div 2>>,
                        <<"">> >>
    /\ max_ops' = window(Len(encoder_ops), Len(decoder_ops))
    /\ i' = 0
    /\ pc' = "loop"
    /\ UNCHANGED <<test_output, file, pos, encoder_ops, decoder_ops>>

\* one iteration of `for i in range(max_ops)`
CompareOp ==
    /\ pc = "loop"
    /\ i < max_ops
    /\ IF ~(/\ InRange(encoder_ops, i * 2 + 1)
            /\ InRange(decoder_ops, i * 2 + 1))
       THEN /\ pc' = "IndexError"
            /\ UNCHANGED <<i, out>>
       ELSE LET enc_before == GetItem(encoder_ops, i * 2)
                enc_after == GetItem(encoder_ops, i * 2 + 1)
                dec_before == GetItem(decoder_ops, i * 2)
                dec_after == GetItem(decoder_ops, i * 2 + 1)
            IN  \E v \in {judge(enc_after, dec_after)} :
                    /\ out' = out \o report(block(i, enc_before, enc_after,
                                                  dec_before, dec_after), v)
                    /\ IF breaks(v)
                       THEN pc' = "done" /\ i' = i
                       ELSE pc' = "loop" /\ i' = i + 1
    /\ UNCHANGED <<test_output, file, pos, encoder_ops, decoder_ops, max_ops>>

\* range(max_ops) is exhausted: main returns
LoopEnd ==
    /\ pc = "loop"
    /\ i >= max_ops
    /\ pc' = "done"
    /\ UNCHANGED <<test_output, file, pos, encoder_ops, decoder_ops, max_ops, i, out>>

Next == RunTest \/ ParseLine \/ ParseReturn \/ PrintCounts \/ CompareOp \/ LoopEnd

Spec == Init /\ [][Next]_vars

\* main runs to its end: no step of it waits on anything
FairSpec == Spec /\ WF_vars(Next)

----------------------------------------------------------------------------
(* What the properties speak of *)

Parsed == pc \notin {"run", "parse"}

\* N of the comparison, from the two streams
N == Min({Len(encoder_ops) \div 2, Len(decoder_ops) \div 2, WindowCap})

\* the snapshot of operation p (counted from 0) of a stream: searched in
\* the details of the record at the odd position
Snapshot(stream, p) == re_search_state(stream[2 * p + 2][3])
SnapPair(m) == <<m.g1, m.g2>>
BothPresent(p) == Snapshot(encoder_ops, p).ok /\ Snapshot(decoder_ops, p).ok
MismatchAt(p) ==
    /\ BothPresent(p)
    /\ SnapPair(Snapshot(encoder_ops, p)) # SnapPair(Snapshot(decoder_ops, p))
MismatchPositions == {p \in 0..(N - 1) : MismatchAt(p)}
Expected(p) ==
    IF ~BothPresent(p) THEN ""
    ELSE IF MismatchAt(p) THEN "STATE MISMATCH" ELSE "States match"

\* the printed report
KindAt(kind) == {k \in DOMAIN out : out[k][1] = kind}
HeadersAt == KindAt("=== Operation")
MismatchLines == KindAt("STATE MISMATCH")
MatchLines == KindAt("States match")
Examined == Cardinality(HeadersAt)
HasBlock(p) == \E k \in HeadersAt : out[k][2] = p + 1
BlockStart(p) == CHOOSE k \in HeadersAt : out[k][2] = p + 1
VerdictKind(p) == out[BlockStart(p) + 5][1]

\* C1: the run ends Diverged at operation d exactly when d is the smallest
\* position of [0, N) whose two snapshots are both present and unequal; the
\* mismatch notice is the last thing reported (only the blank line of its own
\* operation follows), so no later operation is examined or emitted.
C1_FirstMismatchStops ==
    /\ \A k \in MismatchLines :
          /\ pc = "done"
          /\ k = Len(out) - 1
          /\ k > 5
          /\ out[k - 5][1] = "=== Operation"
          /\ MismatchPositions # {}
          /\ out[k - 5][2] = Min(MismatchPositions) + 1
          /\ i = Min(MismatchPositions)
          /\ Examined = Min(MismatchPositions) + 1
    /\ (pc = "done" /\ MismatchPositions # {}) => MismatchLines # {}

C1_Witness ==
    /\ pc = "done"
    /\ MismatchLines # {}
    /\ Cardinality(MismatchPositions) >= 2
    /\ Min(MismatchPositions) >= 1
    /\ Min(MismatchPositions) + 1 < N

\* C2: the number of operations examined never exceeds
\* N = min(len(encoder_ops) // 2, len(decoder_ops) // 2, 50), hence never 50,
\* and is exactly N when the run has ended without a mismatch.
C2_WindowBound ==
    /\ Examined <= N
    /\ Examined <= 50
    /\ (pc = "done" /\ MismatchLines = {}) => Examined = N

C2_Witness ==
    /\ pc = "done"
    /\ Examined = 50
    /\ MismatchLines = {}
    /\ Len(encoder_ops) \div 2 > 50
    /\ Len(decoder_ops) \div 2 > 50

\* C3: an examined operation p one of whose snapshots is absent gets no
\* verdict, the loop goes on past it, and operation p + 1 (when p + 1 < N) is
\* examined and gets the verdict its own two snapshots decide.
C3_AbsentSnapshotSkips ==
    \A p \in 0..(N - 1) :
        (HasBlock(p) /\ ~BothPresent(p)) =>
            /\ VerdictKind(p) = ""
            /\ i >= p + 1
            /\ pc \in {"loop", "done"}
            /\ (pc = "done" /\ p + 1 < N) =>
                  /\ HasBlock(p + 1)
                  /\ VerdictKind(p + 1) = Expected(p + 1)

C3_Witness ==
    \E p \in 0..(N - 2) :
        /\ HasBlock(p) /\ ~BothPresent(p)
        /\ HasBlock(p + 1) /\ VerdictKind(p + 1) = "STATE MISMATCH"

\* C4: every run ends, and ends in exactly one of Exhausted (all N operations
\* examined, no mismatch reported) and Diverged (stopped at the first
\* mismatching operation); when every one of the N pairs of snapshots is
\* present and identical it ends Exhausted with N match confirmations.
Diverged ==
    /\ MismatchLines # {}
    /\ MismatchPositions # {}
    /\ Examined = Min(MismatchPositions) + 1
Exhausted == MismatchLines = {} /\ Examined = N
AllIdentical == \A p \in 0..(N - 1) : BothPresent(p) /\ ~MismatchAt(p)
C4_Final ==
    pc = "done" =>
        /\ Diverged \/ Exhausted
        /\ ~(Diverged /\ Exhausted)
        /\ AllIdentical => (Exhausted /\ Cardinality(MatchLines) = N)
C4_Terminates == <>(pc = "done") /\ []C4_Final

C4_Witness ==
    /\ pc = "done"
    /\ Exhausted
    /\ AllIdentical
    /\ N >= 3
    /\ Cardinality(MatchLines) = N

\* C5: at every point of the parse the encoder output is the records of the
\* lines read so far that match the encoder pattern, in the order of the
\* lines, and likewise the decoder output; no line matches both patterns, the
\* lines that match neither give no record, and an empty input gives two
\* empty lists.
LinesRead == SubSeq(file, 1, pos)
Matches(tag) == [k \in 1..pos |-> re_match_tag(tag, file[k])]
IsHit(m) == m.ok
Filtered(ms) ==
    LET sel == SelectSeq(ms, IsHit)
    IN  [j \in 1..Len(sel) |-> op_record(sel[j])]
Hits(ms) == {k \in DOMAIN ms : ms[k].ok}
HitLines(tag) == Hits(Matches(tag))
C5_ParseIsOrderedFilter ==
    pc \in {"parse", "counts"} =>
        LET me == Matches(MQE)
            md == Matches(MQC)
        IN  /\ encoder_ops = Filtered(me)
            /\ decoder_ops = Filtered(md)
            /\ Hits(me) \cap Hits(md) = {}
            /\ Len(encoder_ops) + Len(decoder_ops)
                  = Cardinality(Hits(me) \cup Hits(md))
            /\ (pc = "counts" /\ file = <<>>) =>
                  (encoder_ops = <<>> /\ decoder_ops = <<>>)

C5_Witness ==
    /\ pc = "counts"
    /\ Len(encoder_ops) >= 2
    /\ Len(decoder_ops) >= 1
    /\ Len(file) > Len(encoder_ops) + Len(decoder_ops)
    /\ \E a, b, c \in DOMAIN file :
          /\ a < b /\ b < c
          /\ a \in HitLines(MQE) /\ b \in HitLines(MQC) /\ c \in HitLines(MQE)

\* C6: every line of the form "[MQE #<integer> <BEFORE|AFTER>]<rest>", the
\* rest of the line empty or blank included, gives exactly one encoder record
\* (the integer, the phase, the rest stripped) and no decoder record, and
\* likewise the "[MQC ...]" lines and the decoder output.
LineBody(line) ==
    IF line # <<>> /\ line[Len(line)] = "\n"
    THEN SubSeq(line, 1, Len(line) - 1) ELSE line
FormCuts(tag, line) ==
    LET body == LineBody(line)
        pre == <<"[">> \o tag \o <<" ", "#">>
        d0 == Len(pre) + 1
    IN  { c \in ((d0 + 1)..Len(body)) \X {BEFORE, AFTER} :
            /\ HasAt(body, 1, pre)
            /\ \A k \in d0..(c[1] - 1) : body[k] \in Digit
            /\ HasAt(body, c[1], <<" ">> \o c[2] \o <<"]">>) }
HasForm(tag, line) == FormCuts(tag, line) # {}
FormRecord(tag, line) ==
    LET body == LineBody(line)
        c == CHOOSE x \in FormCuts(tag, line) : TRUE
        d0 == Len(tag) + 4
    IN  << int(SubSeq(body, d0, c[1] - 1)),
           IF c[2] = BEFORE THEN "BEFORE" ELSE "AFTER",
           strip(SubSeq(body, c[1] + Len(c[2]) + 2, Len(body))) >>
FormRecords(tag) ==
    LET Hit(line) == HasForm(tag, line)
        sel == SelectSeq(LinesRead, Hit)
    IN  [j \in 1..Len(sel) |-> FormRecord(tag, sel[j])]
C6_EveryTaggedLineYieldsRecord ==
    pc \in {"parse", "counts"} =>
        /\ encoder_ops = FormRecords(MQE)
        /\ decoder_ops = FormRecords(MQC)

\* C7: when both snapshots of an examined operation are present, the verdict
\* is 'match' exactly when the two coder states are the same number and the
\* two most probable symbols are the same number, and 'mismatch' otherwise.
SameNumbers(a, b) == int(a.g1) = int(b.g1) /\ int(a.g2) = int(b.g2)
C7_VerdictComparesNumbers ==
    \A p \in 0..(N - 1) :
        (HasBlock(p) /\ BothPresent(p)) =>
            VerdictKind(p) =
                IF SameNumbers(Snapshot(encoder_ops, p), Snapshot(decoder_ops, p))
                THEN "States match" ELSE "STATE MISMATCH"

\* C8: the report is, after the two counts and a blank line, one group per
\* examined operation, numbered 1, 2, ...: the header and the four payload
\* lines, then at most one verdict, then a blank line; so a verdict always
\* comes after the block of its operation, and when the run has ended the
\* number of blocks is d + 1 if it diverged at position d and N otherwise.
PayloadKinds == <<"ENC BEFORE", "ENC AFTER", "DEC BEFORE", "DEC AFTER">>
VerdictLines == MismatchLines \cup MatchLines
C8_BlockBeforeVerdict ==
    /\ \A k \in HeadersAt :
          /\ k + 5 <= Len(out)
          /\ out[k][2] = Cardinality({h \in HeadersAt : h <= k})
          /\ \A j \in 1..4 : out[k + j][1] = PayloadKinds[j]
          /\ \/ out[k + 5][1] = ""
             \/ /\ k + 5 \in VerdictLines
                /\ k + 6 <= Len(out)
                /\ out[k + 6][1] = ""
    /\ \A v \in VerdictLines : v > 5 /\ v - 5 \in HeadersAt
    /\ Len(out) = (IF Parsed /\ pc # "counts" THEN 3 ELSE 0)
                    + 6 * Examined + Cardinality(VerdictLines)
    /\ pc = "done" =>
          Examined = IF MismatchPositions # {}
                     THEN Min(MismatchPositions) + 1 ELSE N

C8_Witness ==
    /\ pc = "done"
    /\ MismatchPositions # {}
    /\ Min(MismatchPositions) = 1
    /\ Examined = Min(MismatchPositions) + 1
    /\ Examined < N
    /\ Cardinality(VerdictLines) = 1

\* C9: operation p is formed by position: its block shows the details of
\* stream[2p] and stream[2p+1] of each side and its verdict is decided by the
\* records at the odd positions, whatever their index and phase fields; for
\* every p below the loop bound both positions exist in both streams, so no
\* access is out of range, and a last unpaired line of a stream is not used.
C9_PositionalPairing ==
    /\ pc # "IndexError"
    /\ pc \in {"loop", "done"} =>
          \A p \in 0..(max_ops - 1) :
              2 * p + 2 <= Len(encoder_ops) /\ 2 * p + 2 <= Len(decoder_ops)
    /\ \A p \in 0..(N - 1) :
          HasBlock(p) =>
              LET k == BlockStart(p)
              IN  /\ out[k + 1][2] = encoder_ops[2 * p + 1][3]
                  /\ out[k + 2][2] = encoder_ops[2 * p + 2][3]
                  /\ out[k + 3][2] = decoder_ops[2 * p + 1][3]
                  /\ out[k + 4][2] = decoder_ops[2 * p + 2][3]
                  /\ VerdictKind(p) = Expected(p)
    /\ \A k \in HeadersAt : out[k][2] <= N

C9_Witness ==
    /\ Len(encoder_ops) % 2 = 1
    /\ Len(encoder_ops) > Len(decoder_ops)
    /\ \E p \in 0..(N - 1) :
          /\ HasBlock(p)
          /\ decoder_ops[2 * p + 2][2] = "BEFORE"
          /\ VerdictKind(p) = "STATE MISMATCH"
          /\ p = N - 1

\* a payload holds "newState=<a digits> newMPS=<b digits of mps>" somewhere
HoldsFields(s, mps) ==
    \E p \in 1..Len(s) :
        /\ HasAt(s, p, NEWSTATE)
        /\ \E a \in 1..Len(s) :
              /\ p + Len(NEWSTATE) + a - 1 <= Len(s)
              /\ \A k \in 0..(a - 1) : s[p + Len(NEWSTATE) + k] \in Digit
              /\ HasAt(s, p + Len(NEWSTATE) + a, NEWMPS)
              /\ \E b \in 1..Len(s) :
                    /\ p + Len(NEWSTATE) + a + Len(NEWMPS) + b - 1 <= Len(s)
                    /\ \A k \in 0..(b - 1) :
                          s[p + Len(NEWSTATE) + a + Len(NEWMPS) + k] \in mps
\* the most probable symbols of the snapshots a verdict line shows
ShownMPS(k) ==
    IF out[k][1] = "STATE MISMATCH" THEN {out[k][2][2], out[k][3][2]}
    ELSE {out[k][2][2]}

\* C10 (as stated): a snapshot is extracted exactly when the payload holds a
\* newState=<integer> field followed by a newMPS=<0 or 1> field, and every
\* snapshot that enters a comparison has a most probable symbol of 0 or 1.
C10_SnapshotMPSIsBit ==
    /\ \A k \in VerdictLines : ShownMPS(k) \subseteq {<<"0">>, <<"1">>}
    /\ \A p \in 0..(N - 1) :
          HasBlock(p) =>
              (VerdictKind(p) # "" <=>
                  /\ HoldsFields(encoder_ops[2 * p + 2][3], {"0", "1"})
                  /\ HoldsFields(decoder_ops[2 * p + 2][3], {"0", "1"}))

\* C10 (amended): a snapshot is extracted exactly when the payload holds
\* "newState=<digits> newMPS=<digits>", whatever the digits: an examined
\* operation gets a verdict exactly when both payloads hold the two fields,
\* and the most probable symbol a verdict shows is a non-empty digit string.
C10_SnapshotAnyDigits ==
    /\ \A k \in VerdictLines :
          \A m \in ShownMPS(k) : m # <<>> /\ \A j \in DOMAIN m : m[j] \in Digit
    /\ \A p \in 0..(N - 1) :
          HasBlock(p) =>
              (VerdictKind(p) # "" <=>
                  /\ HoldsFields(encoder_ops[2 * p + 2][3], Digit)
                  /\ HoldsFields(decoder_ops[2 * p + 2][3], Digit))

C10_Witness ==
    \E k \in VerdictLines : <<"2">> \in ShownMPS(k)

====
